---- MODULE Spec2Model ----
(***************************************************************************)
(* Model of src/delay.py: get_t_pre_ms, get_delays and delay_companions.   *)
(*                                                                         *)
(* Times are fixed-point integers in units of 1e-4 Myr (62.8 Myr is        *)
(* 628000); masses are whole solar masses that are perfect squares, so     *)
(* that M**-2.5 = 1 / (M*M*sqrt(M)) is rational and the only rounding is   *)
(* the final floor to 1e-4 Myr.                                            *)
(*                                                                         *)
(* A table (pandas DataFrame) is a sequence of rows; a row is a function   *)
(* from column names to integers.  DataFrames are objects: `tables` is the *)
(* heap, indexed by object reference, and new_initC holds a reference.     *)
(***************************************************************************)
EXTENDS Integers, Sequences, FiniteSets, TLC

VARIABLES
    pc,                   \* position in the caller / in delay_companions
    tables,               \* heap of DataFrame objects: reference -> table
    new_initC,            \* reference held by the local new_initC (line 57)
    delays,               \* the delays argument of delay_companions
    filters,              \* warnings.filters, the process-wide filter list
    saved_filters,        \* catch_warnings._filters, saved on __enter__
    bpp,                  \* evolution history returned by Evolve.evolve (line 67)
    updater,              \* bpp.drop_duplicates(subset="bin_num", keep="last")
    interacting_binaries, \* line 70
    shown,                \* warnings that passed the filters and reached the caller
    warned,               \* messages delay_companions itself passed to warnings.warn
    exc,                  \* exception in flight / propagated to the caller
    ret_initC,            \* first element of the returned tuple (<<>> until return)
    ret_interacting,      \* second element of the returned tuple
    engine_calls,         \* number of calls of Evolve.evolve made so far
    engine_arg,           \* value of the table the engine was called on
    initC_before,         \* value of the caller's table when the call started
    filters_before        \* value of warnings.filters when the call started

vars == <<pc, tables, new_initC, delays, filters, saved_filters, bpp, updater,
          interacting_binaries, shown, warned, exc, ret_initC, ret_interacting,
          engine_calls, engine_arg, initC_before, filters_before>>

\* Bounds of the model.
MaxRows == 2
MaxHist == 3

----------------------------------------------------------------------------
\* Columns.

\* Faulty variants of columns_to_update: one more column is merged.
columns_with_bin_num ==
    <<"porb", "ecc", "kstar_1", "mass_1", "mass0_1", "rad_1", "lum_1",
      "massc_1", "radc_1", "menv_1", "renv_1", "omega_spin_1", "B_1",
      "bacc_1", "tacc_1", "epoch_1", "tms_1", "bhspin_1", "bin_num">>

columns_with_mass_2 ==
    <<"porb", "ecc", "kstar_1", "mass_1", "mass0_1", "rad_1", "lum_1",
      "massc_1", "radc_1", "menv_1", "renv_1", "omega_spin_1", "B_1",
      "bacc_1", "tacc_1", "epoch_1", "tms_1", "bhspin_1", "mass_2">>

\* delay.py lines 75-77
columns_to_update ==
    <<"porb", "ecc", "kstar_1", "mass_1", "mass0_1", "rad_1", "lum_1",
      "massc_1", "radc_1", "menv_1", "renv_1", "omega_spin_1", "B_1",
      "bacc_1", "tacc_1", "epoch_1", "tms_1", "bhspin_1">>

\* The 18 merged stellar-state columns as the spec and the claims list them.
MergedColumns ==
    {"porb", "ecc", "kstar_1", "mass_1", "mass0_1", "rad_1", "lum_1",
     "massc_1", "radc_1", "menv_1", "renv_1", "omega_spin_1", "B_1",
     "bacc_1", "tacc_1", "epoch_1", "tms_1", "bhspin_1"}

Range(s) == {s[i] : i \in 1..Len(s)}

\* Columns of the initial binary table that delay.py reads or writes, plus
\* secondary-component columns it must leave alone.
InitCColumns == MergedColumns \cup {"bin_num", "mass_2", "kstar_2", "rad_2", "tphysf"}

\* Columns of the evolution history (bpp) the engine returns.
BppColumns == MergedColumns \cup {"bin_num", "evol_type", "tphys", "mass_2", "kstar_2", "rad_2"}

ColumnOrder ==
    <<"porb", "ecc", "kstar_1", "mass_1", "mass0_1", "rad_1", "lum_1",
      "massc_1", "radc_1", "menv_1", "renv_1", "omega_spin_1", "B_1",
      "bacc_1", "tacc_1", "epoch_1", "tms_1", "bhspin_1",
      "bin_num", "mass_2", "kstar_2", "rad_2", "tphysf", "evol_type", "tphys">>

ColIdx(c) == CHOOSE i \in 1..Len(ColumnOrder) : ColumnOrder[i] = c

Column(t, c) == [i \in 1..Len(t) |-> t[i][c]]

----------------------------------------------------------------------------
\* get_t_pre_ms and get_delays (lines 4-32).

RECURSIVE ISqrtFrom(_, _)
ISqrtFrom(M, r) == IF (r + 1) * (r + 1) > M THEN r ELSE ISqrtFrom(M, r + 1)

\* floor(sqrt(M)); exact on the perfect squares the model draws masses from
ISqrt(M) == ISqrtFrom(M, 0)

\* Faulty variant: exponent -2 instead of -2.5.
get_t_pre_ms_square(M) == 628000 \div (M * M)

\* line 17: 62.8 * M**-2.5, in units of 1e-4 Myr
get_t_pre_ms(M) == 628000 \div (M * M * ISqrt(M))

\* Faulty variant: primary minus secondary.
get_delays_swapped(t) ==
    [i \in 1..Len(t) |-> get_t_pre_ms(t[i]["mass_1"]) - get_t_pre_ms(t[i]["mass_2"])]

\* line 32: elementwise on the two .values arrays, so aligned by row position
get_delays(t) ==
    [i \in 1..Len(t) |-> get_t_pre_ms(t[i]["mass_2"]) - get_t_pre_ms(t[i]["mass_1"])]

----------------------------------------------------------------------------
\* Inputs.

\* Stellar masses in solar masses (perfect squares).
Masses == {1, 4, 9}

\* bin_num of the binary in row i of the input: unique, not the row position.
BinNumOfRow(i) == 10 * i + 1

\* tphysf of row i of the input: 10000 Myr, 8000 Myr, ... in units of 1e-4 Myr
TphysfOfRow(i) == 100000000 - 20000000 * (i - 1)

InitialRow(i, m1, m2) ==
    [c \in InitCColumns |->
        IF c = "bin_num" THEN BinNumOfRow(i)
        ELSE IF c = "tphysf" THEN TphysfOfRow(i)
        ELSE IF c = "mass_1" THEN m1
        ELSE IF c = "mass_2" THEN m2
        ELSE 30 * i + ColIdx(c)]

\* An initial binary table of n rows whose row i has masses ms[i] = <<mass_1, mass_2>>.
InitialTable(n, ms) == [i \in 1..n |-> InitialRow(i, ms[i][1], ms[i][2])]

\* evol_type codes the engine records: both boundaries of [3,8] and their neighbours.
EvolTypes == {2, 3, 8, 9}

\* The k-th row the engine records, for binary b with event code e: every state
\* column carries the stamp of the record (1000*k) and of the column.
HistoryRow(k, b, e) ==
    [c \in BppColumns |->
        IF c = "bin_num" THEN b
        ELSE IF c = "evol_type" THEN e
        ELSE 1000 * k + ColIdx(c)]

\* Filter lists the caller may have installed before the call.
CallerFilters ==
    {<<>>, <<[action |-> "ignore", message |-> "mlwind"]>>}

----------------------------------------------------------------------------
\* The warnings module as lines 62-64 and 72 use it.

EngineOverwriteWarning == "overwritten"
EngineMlwindWarning == "mlwind"
InteractionWarning == "interacting"

\* A filter's message regex matches a warning text; "any" is the empty regex.
Matches(f, msg) == f.message = "any" \/ f.message = msg

RECURSIVE Disposition(_, _)
\* action of the first filter that matches, "default" when none does
Disposition(fs, msg) ==
    IF fs = <<>> THEN "default"
    ELSE IF Matches(Head(fs), msg) THEN Head(fs).action
    ELSE Disposition(Tail(fs), msg)

\* warnings.warn: the warning reaches the caller unless its disposition is "ignore"
Warn(fs, log, msg) ==
    IF Disposition(fs, msg) = "ignore" THEN log ELSE Append(log, msg)

\* warnings.filterwarnings: drop an identical entry, insert at the front
FilterWarnings(fs, act, msg) ==
    LET item == [action |-> act, message |-> msg]
    IN <<item>> \o SelectSeq(fs, LAMBDA f : f # item)

\* Faulty variant: the filters installed in the block are left in place on exit.
FiltersKeptOnExit(current, saved) == current

\* catch_warnings.__exit__ (end of the with block of line 62): put back the saved list
FiltersOnExit(current, saved) == saved

----------------------------------------------------------------------------
\* pandas operations of lines 57-80.

\* Faulty variant: new_initC = initC, a second name for the caller's object.
AliasTarget(src) == src

\* line 57: DataFrame.copy() allocates a new object
CopyTarget(src) == "clone"

\* df[c] = v with v an array: positional assignment of one column
SetColumn(t, c, v) == [i \in 1..Len(t) |-> [t[i] EXCEPT ![c] = v[i]]]

RECURSIVE KeepLastFrom(_, _)
KeepLastFrom(t, k) ==
    IF k > Len(t) THEN <<>>
    ELSE (IF \E j \in (k + 1)..Len(t) : t[j]["bin_num"] = t[k]["bin_num"]
          THEN <<>> ELSE <<t[k]>>) \o KeepLastFrom(t, k + 1)

\* line 68: drop_duplicates(subset="bin_num", keep="last"); survivors keep bpp's order
DropDuplicatesLast(t) == KeepLastFrom(t, 1)

RECURSIVE UniqueFrom(_, _)
UniqueFrom(s, seen) ==
    IF s = <<>> THEN <<>>
    ELSE IF Head(s) \in seen THEN UniqueFrom(Tail(s), seen)
    ELSE <<Head(s)>> \o UniqueFrom(Tail(s), seen \cup {Head(s)})

\* Series.unique(): distinct values in order of first appearance
Unique(s) == UniqueFrom(s, {})

\* Faulty variant: the lower boundary code 3 is excluded.
IsInteractingStrict(r) == r["evol_type"] > 3 /\ r["evol_type"] <= 8

\* line 70: (bpp["evol_type"] >= 3) & (bpp["evol_type"] <= 8)
IsInteracting(r) == r["evol_type"] >= 3 /\ r["evol_type"] <= 8

\* line 70
InteractingBinaries(h) == Unique(Column(SelectSeq(h, IsInteracting), "bin_num"))

\* Faulty variant: a single interacting binary is not reported.
ShouldWarnSeveral(ib) == Len(ib) > 1

\* line 71
ShouldWarn(ib) == Len(ib) > 0

\* line 79: new_initC[columns_to_update] = updater[columns_to_update].values
\* (.values drops the index, so row i of the clone takes row i of updater)
MergeColumns(t, u) ==
    [i \in 1..Len(t) |->
        [c \in DOMAIN t[i] |->
            IF c \in Range(columns_to_update) THEN u[i][c] ELSE t[i][c]]]

\* Faulty variant: tphysf is taken from the clone, which still holds the delays.
TphysfFromClone(orig, clone) == Column(clone, "tphysf")

\* line 80: initC["tphysf"].values
TphysfToRestore(orig, clone) == Column(orig, "tphysf")

----------------------------------------------------------------------------
\* The evolution engine (Evolve.evolve, an external collaborator).

\* Histories the engine may return for the binaries in `bins`: between one row
\* per binary and MaxHist rows, every binary present, in any order.
Histories(bins) ==
    UNION {
        {[k \in 1..L |-> HistoryRow(k, bs[k], es[k])] :
            bs \in {f \in [1..L -> bins] : \A b \in bins : \E k \in 1..L : f[k] = b},
            es \in [1..L -> EvolTypes]}
        : L \in Cardinality(bins)..MaxHist}

\* The engine issues its two known warnings during the call.
AfterEngineWarnings(fs, log) ==
    Warn(fs, Warn(fs, log, EngineOverwriteWarning), EngineMlwindWarning)

----------------------------------------------------------------------------
\* Initial states.

InitWith(t, fs) ==
    /\ pc = "start"
    /\ tables = [r \in {"in", "clone"} |-> IF r = "in" THEN t ELSE <<>>]
    /\ new_initC = "none"
    /\ delays = <<>>
    /\ filters = fs
    /\ saved_filters = <<>>
    /\ bpp = <<>>
    /\ updater = <<>>
    /\ interacting_binaries = <<>>
    /\ shown = <<>>
    /\ warned = <<>>
    /\ exc = "none"
    /\ ret_initC = <<>>
    /\ ret_interacting = <<>>
    /\ engine_calls = 0
    /\ engine_arg = <<>>
    /\ initC_before = t
    /\ filters_before = fs

\* Populations whose rows all have the heavier primary, or all the heavier secondary.
UniformMasses(n) == {[i \in 1..n |-> p] : p \in {<<4, 1>>, <<1, 4>>}}

Init ==
    \E n \in 1..MaxRows : \E ms \in UniformMasses(n) : \E fs \in CallerFilters :
        InitWith(InitialTable(n, ms), fs)

\* Every combination of masses, row by row.
InitDelays ==
    \E n \in 1..MaxRows : \E ms \in [1..n -> Masses \X Masses] :
        InitWith(InitialTable(n, ms), <<>>)

----------------------------------------------------------------------------
\* The caller: delays = get_delays(initC), then delay_companions(initC, delays, ...).

GetDelays ==
    /\ pc = "start"
    /\ delays' = get_delays(tables["in"])
    /\ pc' = "l57"
    /\ UNCHANGED <<tables, new_initC, filters, saved_filters, bpp, updater,
                   interacting_binaries, shown, warned, exc, ret_initC,
                   ret_interacting, engine_calls, engine_arg, initC_before,
                   filters_before>>

\* line 57
Clone ==
    /\ pc = "l57"
    /\ new_initC' = CopyTarget("in")
    /\ tables' = [tables EXCEPT ![CopyTarget("in")] = tables["in"]]
    /\ pc' = "l60"
    /\ UNCHANGED <<delays, filters, saved_filters, bpp, updater,
                   interacting_binaries, shown, warned, exc, ret_initC,
                   ret_interacting, engine_calls, engine_arg, initC_before,
                   filters_before>>

\* line 60
SetTphysf ==
    /\ pc = "l60"
    /\ tables' = [tables EXCEPT ![new_initC] = SetColumn(@, "tphysf", delays)]
    /\ pc' = "l62"
    /\ UNCHANGED <<new_initC, delays, filters, saved_filters, bpp, updater,
                   interacting_binaries, shown, warned, exc, ret_initC,
                   ret_interacting, engine_calls, engine_arg, initC_before,
                   filters_before>>

\* line 62: catch_warnings.__enter__ saves the list and works on a copy
EnterCatchWarnings ==
    /\ pc = "l62"
    /\ saved_filters' = filters
    /\ pc' = "l63"
    /\ UNCHANGED <<tables, new_initC, delays, filters, bpp, updater,
                   interacting_binaries, shown, warned, exc, ret_initC,
                   ret_interacting, engine_calls, engine_arg, initC_before,
                   filters_before>>

\* line 63
IgnoreOverwriteWarning ==
    /\ pc = "l63"
    /\ filters' = FilterWarnings(filters, "ignore", EngineOverwriteWarning)
    /\ pc' = "l64"
    /\ UNCHANGED <<tables, new_initC, delays, saved_filters, bpp, updater,
                   interacting_binaries, shown, warned, exc, ret_initC,
                   ret_interacting, engine_calls, engine_arg, initC_before,
                   filters_before>>

\* line 64
IgnoreMlwindWarning ==
    /\ pc = "l64"
    /\ filters' = FilterWarnings(filters, "ignore", EngineMlwindWarning)
    /\ pc' = "l67"
    /\ UNCHANGED <<tables, new_initC, delays, saved_filters, bpp, updater,
                   interacting_binaries, shown, warned, exc, ret_initC,
                   ret_interacting, engine_calls, engine_arg, initC_before,
                   filters_before>>

\* lines 67-68: the engine returns a history; updater is taken from it
EvolveReturns ==
    /\ pc = "l67"
    /\ \E h \in Histories(Range(Column(tables[new_initC], "bin_num"))) :
          /\ bpp' = h
          /\ updater' = DropDuplicatesLast(h)
    /\ engine_calls' = engine_calls + 1
    /\ engine_arg' = tables[new_initC]
    /\ shown' = AfterEngineWarnings(filters, shown)
    /\ pc' = "exit"
    /\ UNCHANGED <<tables, new_initC, delays, filters, saved_filters,
                   interacting_binaries, warned, exc, ret_initC,
                   ret_interacting, initC_before, filters_before>>

\* line 67: the engine raises
EvolveRaises ==
    /\ pc = "l67"
    /\ exc' = "EngineError"
    /\ engine_calls' = engine_calls + 1
    /\ engine_arg' = tables[new_initC]
    /\ shown' = AfterEngineWarnings(filters, shown)
    /\ pc' = "unwind"
    /\ UNCHANGED <<tables, new_initC, delays, filters, saved_filters, bpp,
                   updater, interacting_binaries, warned, ret_initC,
                   ret_interacting, initC_before, filters_before>>

\* end of the with block (lines 62-68): __exit__ runs on return and on exception,
\* and does not swallow the exception
ExitCatchWarnings ==
    /\ pc \in {"exit", "unwind"}
    /\ filters' = FiltersOnExit(filters, saved_filters)
    /\ pc' = IF pc = "exit" THEN "l70" ELSE "raised"
    /\ UNCHANGED <<tables, new_initC, delays, saved_filters, bpp, updater,
                   interacting_binaries, shown, warned, exc, ret_initC,
                   ret_interacting, engine_calls, engine_arg, initC_before,
                   filters_before>>

\* lines 70-73
DetectInteracting ==
    /\ pc = "l70"
    /\ interacting_binaries' = InteractingBinaries(bpp)
    /\ IF ShouldWarn(interacting_binaries')
       THEN /\ warned' = Append(warned, InteractionWarning)
            /\ shown' = Warn(filters, shown, InteractionWarning)
       ELSE UNCHANGED <<warned, shown>>
    /\ pc' = "l79"
    /\ UNCHANGED <<tables, new_initC, delays, filters, saved_filters, bpp,
                   updater, exc, ret_initC, ret_interacting, engine_calls,
                   engine_arg, initC_before, filters_before>>

\* lines 75-79
Merge ==
    /\ pc = "l79"
    /\ tables' = [tables EXCEPT ![new_initC] = MergeColumns(@, updater)]
    /\ pc' = "l80"
    /\ UNCHANGED <<new_initC, delays, filters, saved_filters, bpp, updater,
                   interacting_binaries, shown, warned, exc, ret_initC,
                   ret_interacting, engine_calls, engine_arg, initC_before,
                   filters_before>>

\* line 80
RestoreTphysf ==
    /\ pc = "l80"
    /\ tables' = [tables EXCEPT ![new_initC] =
                     SetColumn(@, "tphysf", TphysfToRestore(tables["in"], @))]
    /\ pc' = "l81"
    /\ UNCHANGED <<new_initC, delays, filters, saved_filters, bpp, updater,
                   interacting_binaries, shown, warned, exc, ret_initC,
                   ret_interacting, engine_calls, engine_arg, initC_before,
                   filters_before>>

\* line 81
Return ==
    /\ pc = "l81"
    /\ ret_initC' = tables[new_initC]
    /\ ret_interacting' = interacting_binaries
    /\ pc' = "done"
    /\ UNCHANGED <<tables, new_initC, delays, filters, saved_filters, bpp,
                   updater, interacting_binaries, shown, warned, exc,
                   engine_calls, engine_arg, initC_before, filters_before>>

Next ==
    \/ GetDelays
    \/ Clone
    \/ SetTphysf
    \/ EnterCatchWarnings
    \/ IgnoreOverwriteWarning
    \/ IgnoreMlwindWarning
    \/ EvolveReturns
    \/ EvolveRaises
    \/ ExitCatchWarnings
    \/ DetectInteracting
    \/ Merge
    \/ RestoreTphysf
    \/ Return

Spec == Init /\ [][Next]_vars

\* The caller's pipeline up to the table that is handed to the engine.
NextDelays ==
    \/ GetDelays
    \/ Clone
    \/ SetTphysf

SpecDelays == InitDelays /\ [][NextDelays]_vars

----------------------------------------------------------------------------
\* Properties.

Rows(t) == 1..Len(t)

\* The call has left the with block of lines 62-68.
AfterBlock == pc \in {"l70", "l79", "l80", "l81", "done", "raised"}

\* Interaction codes, as the spec lists them: 3 through 8 inclusive.
InteractionCodes == {3, 4, 5, 6, 7, 8}

\* Last-recorded row of history h that carries bin_num b.
FinalRowOf(h, b) ==
    LET last == CHOOSE k \in Rows(h) :
                    /\ h[k]["bin_num"] = b
                    /\ \A j \in Rows(h) : h[j]["bin_num"] = b => j <= k
    IN h[last]

\* Reference values of 62.8 * M**-2.5 in units of 1e-4 Myr, computed by hand:
\* 62.8, 62.8/32 = 1.9625, 62.8/243 = 0.2584...
PowerLawTable == [M \in Masses |-> IF M = 1 THEN 628000 ELSE IF M = 4 THEN 19625 ELSE 2584]

\* C1: the tphysf column of the returned table equals, row by row, the tphysf
\* column of the input table, whatever delays were written for the partial run
\* and whatever history the engine returned.
C1_TphysfRestored ==
    pc = "done" =>
        /\ Len(ret_initC) = Len(initC_before)
        /\ \A i \in Rows(ret_initC) : ret_initC[i]["tphysf"] = initC_before[i]["tphysf"]

C1_Witness ==
    /\ pc = "done"
    /\ Len(initC_before) = 2
    /\ Column(engine_arg, "tphysf") = delays
    /\ \A i \in Rows(delays) : delays[i] # initC_before[i]["tphysf"]
    /\ Column(ret_initC, "tphysf") = <<100000000, 80000000>>

\* C2: at every step of the call, also when the engine raises, every cell of the
\* caller's table has the value it had before the call.
C2_InputNeverMutated == tables["in"] = initC_before

C2_Witness ==
    /\ pc = "done"
    /\ new_initC = "clone"
    /\ tables["clone"] # initC_before
    /\ tables["in"] = initC_before

\* C3: the returned table has the input's number of rows in the input's order,
\* and its bin_num column is the input's (hence unique), whatever rows and row
\* order the history has.
C3_RowsAndBinNum ==
    pc = "done" =>
        /\ Len(ret_initC) = Len(initC_before)
        /\ \A i \in Rows(ret_initC) : ret_initC[i]["bin_num"] = initC_before[i]["bin_num"]
        /\ \A i, j \in Rows(ret_initC) :
              ret_initC[i]["bin_num"] = ret_initC[j]["bin_num"] => i = j

C3_Witness ==
    /\ pc = "done"
    /\ Len(bpp) > Len(initC_before)
    /\ Column(updater, "bin_num") # Column(initC_before, "bin_num")
    /\ Column(ret_initC, "bin_num") = <<11, 21>>

\* C4: the returned interacting set holds exactly the bin_num values with at
\* least one history row whose evol_type is in 3..8, each exactly once.
C4_InteractingSet ==
    pc = "done" =>
        /\ Range(ret_interacting) =
              {bpp[k]["bin_num"] : k \in {j \in Rows(bpp) : bpp[j]["evol_type"] \in InteractionCodes}}
        /\ \A i, j \in Rows(ret_interacting) : ret_interacting[i] = ret_interacting[j] => i = j

C4_Witness ==
    /\ pc = "done"
    /\ \E j, k, l \in Rows(bpp) :
          /\ bpp[j]["bin_num"] = bpp[k]["bin_num"]
          /\ bpp[j]["evol_type"] = 3
          /\ bpp[k]["evol_type"] = 8
          /\ bpp[l]["bin_num"] # bpp[j]["bin_num"]
          /\ bpp[l]["evol_type"] \in {2, 9}
          /\ ret_interacting = <<bpp[j]["bin_num"]>>

C6_MergedFromOwnFinalRow ==
    pc = "done" =>
        \A i \in Rows(ret_initC) : \A c \in MergedColumns :
            ret_initC[i][c] = FinalRowOf(bpp, initC_before[i]["bin_num"])[c]

\* C7: get_delays returns one entry per row, the i-th being the power law of
\* mass_2 of row i minus the power law of mass_1 of row i; a negative
\* difference is returned as it is.
C7_DelaysElementwise ==
    pc # "start" =>
        /\ Len(delays) = Len(initC_before)
        /\ \A i \in Rows(delays) :
              delays[i] = PowerLawTable[initC_before[i]["mass_2"]]
                          - PowerLawTable[initC_before[i]["mass_1"]]

C7_Witness ==
    /\ pc = "l57"
    /\ Len(initC_before) = 2
    /\ initC_before[1]["mass_1"] = 1 /\ initC_before[1]["mass_2"] = 4
    /\ initC_before[2]["mass_1"] = 9 /\ initC_before[2]["mass_2"] = 1
    /\ delays = <<-608375, 625416>>

\* C8 as stated: every delay derived from strictly positive masses is
\* non-negative, and so is the tphysf handed to the engine.
C8_DelaysNonNegative ==
    /\ pc # "start" => \A i \in Rows(delays) : delays[i] >= 0
    /\ pc = "l62" => \A i \in Rows(tables[new_initC]) : tables[new_initC][i]["tphysf"] >= 0

\* C8 amended: a delay is non-negative when mass_2 <= mass_1 and not positive
\* when mass_2 > mass_1, and the tphysf handed to the engine is that delay
\* unchanged.
C8_DelaySignFollowsMasses ==
    /\ pc # "start" =>
          \A i \in Rows(delays) :
              /\ initC_before[i]["mass_2"] <= initC_before[i]["mass_1"] => delays[i] >= 0
              /\ initC_before[i]["mass_2"] > initC_before[i]["mass_1"] => delays[i] <= 0
    /\ pc = "l62" =>
          /\ Len(tables[new_initC]) = Len(delays)
          /\ \A i \in Rows(delays) : tables[new_initC][i]["tphysf"] = delays[i]

C8_Witness ==
    /\ pc = "l62"
    /\ Len(delays) = 2
    /\ initC_before[1]["mass_2"] > initC_before[1]["mass_1"]
    /\ initC_before[2]["mass_2"] < initC_before[2]["mass_1"]
    /\ tables[new_initC][1]["tphysf"] < 0
    /\ tables[new_initC][2]["tphysf"] > 0

\* C9: once the call has left the suppression block, on return and on an engine
\* exception alike, the warning filters are those it found on entry; an engine
\* exception reaches the caller as raised, with nothing returned; the
\* interaction warning is issued under the restored filters only.
C9_SuppressionScoped ==
    /\ AfterBlock => filters = filters_before
    /\ pc = "raised" => exc = "EngineError" /\ ret_initC = <<>> /\ ret_interacting = <<>>
    /\ exc # "none" => pc \in {"unwind", "raised"}
    /\ warned # <<>> =>
          /\ filters = filters_before
          /\ Disposition(filters_before, InteractionWarning) # "ignore"
                => InteractionWarning \in Range(shown)

C9_Witness ==
    /\ pc = "raised"
    /\ filters_before # <<>>
    /\ filters = filters_before
    /\ engine_calls = 1
    /\ exc = "EngineError"

\* C10: every column of the returned table outside the 18 merged ones equals
\* the input's column row by row, and the engine is called exactly once, on a
\* table that differs from the input only in tphysf, which holds the delays by
\* row position.
C10_FrameAndSingleEngineCall ==
    /\ pc = "done" =>
          /\ Len(ret_initC) = Len(initC_before)
          /\ \A i \in Rows(ret_initC) : \A c \in InitCColumns \ MergedColumns :
                ret_initC[i][c] = initC_before[i][c]
    /\ engine_calls = (IF pc \in {"start", "l57", "l60", "l62", "l63", "l64", "l67"} THEN 0 ELSE 1)
    /\ engine_calls = 1 =>
          /\ Len(engine_arg) = Len(initC_before)
          /\ \A i \in Rows(engine_arg) :
                /\ DOMAIN engine_arg[i] = InitCColumns
                /\ engine_arg[i]["tphysf"] = delays[i]
                /\ \A c \in InitCColumns \ {"tphysf"} : engine_arg[i][c] = initC_before[i][c]

C10_Witness ==
    /\ pc = "done"
    /\ engine_calls = 1
    /\ Len(ret_initC) = 2
    /\ ret_initC[2]["mass_1"] # initC_before[2]["mass_1"]
    /\ ret_initC[2]["mass_2"] = initC_before[2]["mass_2"]
    /\ engine_arg[2]["tphysf"] = delays[2]

====
